---- MODULE Spec2Model ----
(***************************************************************************)
(* Model of the Beatport ModuleInterface (src/interface.py):               *)
(*   - the authentication lifecycle run by __init__, login, refresh_token  *)
(*     and valid_account;                                                  *)
(*   - the paginated aggregation of get_playlist_info, get_artist_info     *)
(*     and get_album_info;                                                 *)
(*   - the download pipeline of get_track_download.                        *)
(* Every external call (API client, stream collaborator, file system) is   *)
(* one step whose response is drawn from a small set.                      *)
(***************************************************************************)
EXTENDS Integers, Sequences, FiniteSets, TLC

\* ------------------------------------------------------------------ bounds
MaxToken == 2
MaxTime == 2
MaxOps == 2
MaxCount == 500
MaxTrack == 2
MaxSmall == 3

\* None of Python, for token and time values
None == 0
Tokens == 1..MaxToken
Times == 1..MaxTime

\* ---------------------------------------------------------------- variables
VARIABLES
    pc,          \* next external call of the running method, or idle/done/failed
    stack,       \* the methods of ModuleInterface being executed, outermost first
    op,          \* the top-level operation in progress: "init", "login", "refresh_token"
    ops,         \* number of top-level login/refresh_token calls made after construction
    store,       \* temporary_settings_controller: the three persisted values
    restored,    \* the local 'session' of __init__: what it read from the store
    sess,        \* the API client's access_token, refresh_token, expires
    now,         \* datetime.now() at construction
    disable,     \* disable_subscription_check
    calls,       \* external calls of the operation in progress, in order
    writes,      \* names written to the store by the operation in progress, in order
    refreshResp, \* response of the last session.refresh() of the operation
    loginResp,   \* response of the last session.auth() of the operation
    subResp,     \* response of the last session.get_subscription() of the operation
    storeAtOp,   \* the store when the operation in progress began
    err,         \* message of the module error that left the operation, NoText if none
    \* ---- paginated aggregation
    gpc,         \* position of the aggregation: "first", "page", "finish", "done", "idle"
    kind,        \* "chart", "playlist", "artist" or "album"
    declared,    \* the number of tracks the server holds and declares as 'count'
    total_tracks,\* the count read from the first page
    page,        \* the loop variable of the page loop
    stop,        \* the (exclusive) upper end of the page range
    tracks,      \* the accumulated tracks
    requests,    \* page indices of the track-page requests issued, in order
    responses,   \* the 'results' of each track page as the server returned them
    apiLog,      \* names of the API client methods called, in order
    result,      \* the 'tracks' id list of the returned info object
    media_id,    \* the id of the album, playlist, chart or artist asked for
    gap,         \* the index of the one track that has no 'length_ms', 0 if none
    cache,       \* track_extra_kwargs['data'] of the returned info object
    duration,    \* the 'duration' of the returned info object
    perr,        \* the exception that left the aggregation, NoText if none
    \* ---- get_track_download
    dpc,         \* position of the download: "stream", "manifest", "segments", ...
    track_id,
    quality_tier,
    temp_file,   \* None or the allocated temporary path
    file,        \* what is on disk at the temporary path: "absent", "empty", "data"
    dcalls,      \* the external steps taken, in order
    derr,        \* the exception that left the call: its type and message
    removeFailed,\* os.remove raised during the cleanup
    returned,    \* a TrackDownloadInfo was returned
    thrown,      \* the exception raised inside the try block, before the except clause
    streamResp,  \* what get_track_stream returned: "none", "no_url", "url"; "unset" before
    segments,    \* download_segments: "unset", or "returned"/"raised" and the file it left
    \* ---- get_track_info
    tpc,         \* position of get_track_info: "track", "release", "done", "failed", "idle"
    tid,         \* its track_id argument
    tquality,       \* its quality_tier argument
    data,        \* its data argument: the raw-data cache
    dataAtCall,  \* the cache as it was when the call began
    payload,     \* the raw record of the track, as the service (or a cache) holds it
    track_data,  \* the local track_data
    relOutcome,  \* how album_data was obtained: "cache", "ok", or how get_release failed
    tcalls,      \* the API client calls made, in order
    info,        \* the TrackInfo returned
    terr,        \* the exception that left the call, NoText if none
    \* ---- search and get_track_cover
    mpc,         \* position: "get_search", "cover", "done", "failed", "idle"
    query_type,  \* the query_type argument of search
    cover_cached,\* track_id in data, for get_track_cover
    mcalls       \* the API client calls made, in order

authVars == <<pc, stack, op, ops, store, restored, sess, now, disable, calls, writes,
              refreshResp, loginResp, subResp, storeAtOp, err>>

pageVars == <<gpc, kind, declared, total_tracks, page, stop, tracks, requests, responses,
              apiLog, result, media_id, gap, cache, duration, perr>>

dlVars == <<dpc, track_id, quality_tier, temp_file, file, dcalls, derr, removeFailed, returned,
            thrown, streamResp, segments>>

trackVars == <<tpc, tid, tquality, data, dataAtCall, payload, track_data, relOutcome, tcalls,
               info, terr>>

miscVars == <<mpc, query_type, cover_cached, mcalls>>

vars == <<authVars, pageVars, dlVars, trackVars, miscVars>>

\* ============================================================ Auth lifecycle

NoText == "None"    \* Python None where a string is expected

NoSession == [access_token |-> None, refresh_token |-> None, expires |-> None]
SessionValues == [access_token : Tokens, refresh_token : Tokens, expires : Times]

\* The store holds nothing (first run) or what an earlier login/refresh wrote.
StoredSessions == {NoSession} \cup SessionValues

SessionKeys == <<"access_token", "refresh_token", "expires">>

\* ---- responses of the API client
AuthOk == [error_description : {NoText}, access_token : Tokens,
           refresh_token : Tokens, expires : Times]
AuthRejected == [error_description : {"Invalid credentials"}, access_token : {None},
                 refresh_token : {None}, expires : {None}]
AuthResponses == AuthOk \cup AuthRejected
NoAuthResp == [error_description |-> NoText, access_token |-> None,
               refresh_token |-> None, expires |-> None]

RefreshOk == [kind : {"data"}, error : {NoText}, access_token : Tokens,
              refresh_token : Tokens, expires : Times]
RefreshFailed == [kind : {"data"}, error : {"invalid_grant", "invalid_request"},
                  access_token : {None}, refresh_token : {None}, expires : {None}]
RefreshEmpty == [kind : {"none"}, error : {NoText}, access_token : {None},
                 refresh_token : {None}, expires : {None}]
RefreshResponses == RefreshOk \cup RefreshFailed \cup RefreshEmpty
NoRefreshResp == [kind |-> "unset", error |-> NoText, access_token |-> None,
                  refresh_token |-> None, expires |-> None]

ResponseTokens(r) == [access_token |-> r.access_token, refresh_token |-> r.refresh_token,
                      expires |-> r.expires]

AcceptedPlanCodes == {"bp_link", "bp_link_pro"}
PlanCodes == {"", "bp_link", "bp_link_pro", "bp_basic"}

\* get_subscription: raises, returns nothing, or returns a payload whose parts
\* may be missing, empty, of the wrong shape, or present. The parts that lie
\* inside a missing part are missing too.
SubscriptionShapes == [kind : {"data"},
                       subscription : {"missing", "empty", "malformed", "present"},
                       bundle : {"missing", "empty", "present"},
                       plan_code : PlanCodes,
                       active : BOOLEAN,
                       status : {{}, {"active"}, {"cancelled"}}]
SubscriptionData ==
    {r \in SubscriptionShapes :
        /\ (r.subscription # "present") => (r.bundle = "missing")
        /\ (r.bundle # "present") => (r.plan_code = "")}
SubscriptionBlank(k) == [kind |-> k, subscription |-> "missing", bundle |-> "missing",
                         plan_code |-> "", active |-> FALSE, status |-> {}]
SubscriptionResponses == SubscriptionData \cup {SubscriptionBlank("raise"), SubscriptionBlank("none")}
NoSubResp == SubscriptionBlank("unset")

\* ---- the API client's token fields (BeatportApi)
set_session(session) == session

SessionAfterAuth(s, resp) ==
    IF resp.error_description = NoText THEN ResponseTokens(resp) ELSE s

SessionAfterRefresh(s, resp) ==
    IF resp.kind = "data" /\ resp.error = NoText THEN ResponseTokens(resp) ELSE s

\* Decide with the expiry comparison lost
DecideIgnoresExpiry(session, t) ==
    IF session.refresh_token = None THEN "login" ELSE "refresh"

\* ---- ModuleInterface.__init__, lines 88-94: which way authentication goes
Decide(session, t) ==
    IF session.refresh_token = None THEN "login"
    ELSE IF session.refresh_token # None /\ t > session.expires THEN "refresh"
    ELSE "proceed"

\* PersistSession with the write of 'expires' lost
PersistSessionNoExpires(st, s) ==
    [access_token |-> s.access_token, refresh_token |-> s.refresh_token, expires |-> st.expires]

\* ---- the three temporary_settings_controller.set calls
PersistSession(st, s) ==
    [access_token |-> s.access_token, refresh_token |-> s.refresh_token, expires |-> s.expires]

\* refresh_token without the invalid_grant fallback
refresh_tokenNoFallback(resp, s, st) ==
    [login |-> FALSE, store |-> [access_token |-> s.access_token,
                                 refresh_token |-> s.refresh_token,
                                 expires |-> s.expires],
     writes |-> SessionKeys]

\* ---- ModuleInterface.refresh_token after session.refresh() returned resp:
\* falls back to login, or persists the client's fields.
refresh_token(resp, s, st) ==
    IF resp.kind = "data" /\ resp.error = "invalid_grant"
    THEN [login |-> TRUE, store |-> st, writes |-> <<>>]
    ELSE [login |-> FALSE, store |-> PersistSession(st, s), writes |-> SessionKeys]

\* login that validates the account although the response is an error
loginValidatesOnError(resp, s, st) ==
    IF resp.error_description # NoText
    THEN [err |-> NoText, store |-> st, writes |-> <<>>, validate |-> TRUE]
    ELSE [err |-> NoText, store |-> [access_token |-> s.access_token,
                                     refresh_token |-> s.refresh_token,
                                     expires |-> s.expires],
          writes |-> SessionKeys, validate |-> TRUE]

\* ---- ModuleInterface.login after session.auth() returned resp
login(resp, s, st) ==
    IF resp.error_description # NoText
    THEN [err |-> resp.error_description, store |-> st, writes |-> <<>>, validate |-> FALSE]
    ELSE [err |-> NoText, store |-> PersistSession(st, s), writes |-> SessionKeys,
          validate |-> TRUE]

\* SubscriptionFailure with the status check lost
SubscriptionFailureNoStatus(resp) ==
    IF resp.kind = "raise" THEN "ConnectionError"
    ELSE IF resp.kind = "none" \/ resp.subscription \in {"missing", "empty"}
    THEN "Beatport: Account does not have an active subscription"
    ELSE IF resp.subscription = "malformed" THEN "AttributeError"
    ELSE IF resp.bundle \in {"missing", "empty"}
    THEN "Beatport: Account does not have an active subscription"
    ELSE IF resp.plan_code = "" \/ resp.plan_code \notin AcceptedPlanCodes
    THEN "Beatport: Account does not have an active LINK or LINK PRO subscription"
    ELSE NoText

\* ---- ModuleInterface.valid_account
\* What is raised inside the try block for a response, NoText if nothing is.
SubscriptionFailure(resp) ==
    IF resp.kind = "raise" THEN "ConnectionError"
    ELSE IF resp.kind = "none" \/ resp.subscription \in {"missing", "empty"}
    THEN "Beatport: Account does not have an active subscription"
    ELSE IF resp.subscription = "malformed" THEN "AttributeError"
    ELSE IF resp.bundle \in {"missing", "empty"}
    THEN "Beatport: Account does not have an active subscription"
    ELSE IF resp.plan_code = "" \/ resp.plan_code \notin AcceptedPlanCodes
    THEN "Beatport: Account does not have an active LINK or LINK PRO subscription"
    ELSE IF ~resp.active \/ "active" \notin resp.status
    THEN "Beatport: Account subscription is not active"
    ELSE NoText

\* valid_account whose except clause lets the raised error through
valid_accountReraises(resp) == SubscriptionFailure(resp)

\* The except clause: whatever was raised inside is replaced.
valid_account(resp) ==
    IF SubscriptionFailure(resp) # NoText THEN "Failed to validate Beatport account"
    ELSE NoText

\* valid_account touches the API client only when the check is not disabled
ChecksSubscription(disabled) == ~disabled

Pop(st) == SubSeq(st, 1, Len(st) - 1)

\* Where control goes when the callee of the top frame of st has returned.
\* __init__ goes on to its valid_account call (line 97); login (line 133),
\* refresh_token (line 108) and __init__ after line 97 return to their caller.
RECURSIVE Resume(_)
Resume(st) ==
    IF st = <<>> THEN [pc |-> "done", stack |-> <<>>]
    ELSE IF st[Len(st)] = "__init__"
    THEN IF ChecksSubscription(disable)
         THEN [pc |-> "get_subscription", stack |-> <<"__init__:97", "valid_account">>]
         ELSE [pc |-> "done", stack |-> <<>>]
    ELSE Resume(Pop(st))

\* login returning without its valid_account call
EnterValidAccountSkips(st) == Resume(st)

\* Entering valid_account from the top frame of st (login, line 133)
EnterValidAccount(st) ==
    IF ChecksSubscription(disable)
    THEN [pc |-> "get_subscription", stack |-> Append(st, "valid_account")]
    ELSE Resume(st)

InitAuth ==
    /\ pc = "construct"
    /\ stack = <<>>
    /\ op = "__init__"
    /\ ops = 0
    /\ store \in StoredSessions
    /\ restored = NoSession
    /\ sess = NoSession
    /\ now \in Times
    /\ disable \in BOOLEAN
    /\ calls = <<>>
    /\ writes = <<>>
    /\ refreshResp = NoRefreshResp
    /\ loginResp = NoAuthResp
    /\ subResp = NoSubResp
    /\ storeAtOp = store
    /\ err = NoText

AuthIdle ==
    /\ pc = "idle"
    /\ stack = <<>>
    /\ op = "none"
    /\ ops = 0
    /\ store = NoSession
    /\ restored = NoSession
    /\ sess = NoSession
    /\ now = 1
    /\ disable = FALSE
    /\ calls = <<>>
    /\ writes = <<>>
    /\ refreshResp = NoRefreshResp
    /\ loginResp = NoAuthResp
    /\ subResp = NoSubResp
    /\ storeAtOp = NoSession
    /\ err = NoText

\* __init__ up to its first external call
Construct ==
    /\ pc = "construct"
    /\ restored' = store
    /\ sess' = set_session(store)
    /\ LET d == Decide(store, now) IN
         IF d = "login" THEN pc' = "auth" /\ stack' = <<"__init__", "login">>
         ELSE IF d = "refresh" THEN pc' = "refresh" /\ stack' = <<"__init__", "refresh_token">>
         ELSE LET r == Resume(<<"__init__">>) IN pc' = r.pc /\ stack' = r.stack
    /\ UNCHANGED <<op, ops, store, now, disable, calls, writes, refreshResp, loginResp,
                   subResp, storeAtOp, err>>
    /\ UNCHANGED <<pageVars, dlVars, trackVars, miscVars>>

\* refresh_token: session.refresh() and what follows it
Refresh ==
    /\ pc = "refresh"
    /\ \E resp \in RefreshResponses :
         LET s == SessionAfterRefresh(sess, resp)
             r == refresh_token(resp, s, store)
             next == IF r.login THEN [pc |-> "auth", stack |-> Append(stack, "login")]
                     ELSE Resume(Pop(stack))
         IN /\ refreshResp' = resp
            /\ sess' = s
            /\ store' = r.store
            /\ writes' = writes \o r.writes
            /\ pc' = next.pc
            /\ stack' = next.stack
    /\ calls' = Append(calls, "refresh")
    /\ UNCHANGED <<op, ops, restored, now, disable, loginResp, subResp, storeAtOp, err>>
    /\ UNCHANGED <<pageVars, dlVars, trackVars, miscVars>>

\* login: session.auth() and what follows it
Auth ==
    /\ pc = "auth"
    /\ \E resp \in AuthResponses :
         LET s == SessionAfterAuth(sess, resp)
             r == login(resp, s, store)
             next == IF r.err # NoText THEN [pc |-> "failed", stack |-> <<>>]
                     ELSE IF r.validate THEN EnterValidAccount(stack)
                     ELSE Resume(Pop(stack))
         IN /\ loginResp' = resp
            /\ sess' = s
            /\ store' = r.store
            /\ writes' = writes \o r.writes
            /\ err' = r.err
            /\ pc' = next.pc
            /\ stack' = next.stack
    /\ calls' = Append(calls, "auth")
    /\ UNCHANGED <<op, ops, restored, now, disable, refreshResp, subResp, storeAtOp>>
    /\ UNCHANGED <<pageVars, dlVars, trackVars, miscVars>>

\* valid_account: session.get_subscription() and the entitlement check
GetSubscription ==
    /\ pc = "get_subscription"
    /\ \E resp \in SubscriptionResponses :
         LET e == valid_account(resp)
             next == IF e # NoText THEN [pc |-> "failed", stack |-> <<>>]
                     ELSE Resume(Pop(stack))
         IN /\ subResp' = resp
            /\ err' = e
            /\ pc' = next.pc
            /\ stack' = next.stack
    /\ calls' = Append(calls, "get_subscription")
    /\ UNCHANGED <<op, ops, store, restored, sess, now, disable, writes, refreshResp,
                   loginResp, storeAtOp>>
    /\ UNCHANGED <<pageVars, dlVars, trackVars, miscVars>>

\* The host calls a method of the constructed object.
Idle == (pc = "done") \/ (pc = "failed" /\ op # "__init__")

BeginOp(name, first) ==
    /\ Idle
    /\ ops < MaxOps
    /\ ops' = ops + 1
    /\ op' = name
    /\ pc' = first
    /\ stack' = <<name>>
    /\ calls' = <<>>
    /\ writes' = <<>>
    /\ refreshResp' = NoRefreshResp
    /\ loginResp' = NoAuthResp
    /\ subResp' = NoSubResp
    /\ storeAtOp' = store
    /\ err' = NoText
    /\ restored' = NoSession
    /\ UNCHANGED <<store, sess, now, disable>>
    /\ UNCHANGED <<pageVars, dlVars, trackVars, miscVars>>

CallLogin == BeginOp("login", "auth")

CallRefreshToken == BeginOp("refresh_token", "refresh")

NextAuth == Construct \/ Refresh \/ Auth \/ GetSubscription \/ CallLogin \/ CallRefreshToken

\* ------------------------------------------------ properties of the lifecycle

RECURSIVE Count(_, _)
Count(seq, x) ==
    IF seq = <<>> THEN 0
    ELSE (IF seq[1] = x THEN 1 ELSE 0) + Count(Tail(seq), x)

LastCall == IF calls = <<>> THEN NoText ELSE calls[Len(calls)]

\* the first external call of the operation, made or about to be made
FirstStep == IF calls = <<>> THEN pc ELSE calls[1]

ValidationFailed == "Failed to validate Beatport account"

\* C1: at construction, an absent persisted refresh_token leads to login and
\* never to refresh; a present one with now > expires leads to refresh, and
\* then to login only if the refresh was rejected with invalid_grant; in the
\* remaining case neither auth nor refresh is called.
C1_DecisionFollowsSession ==
    (op = "__init__" /\ pc # "construct") =>
        IF restored.refresh_token = None
        THEN /\ FirstStep = "auth"
             /\ Count(calls, "refresh") = 0
        ELSE IF now > restored.expires
        THEN /\ FirstStep = "refresh"
             /\ (pc = "auth" \/ Count(calls, "auth") > 0)
                    => (refreshResp.kind = "data" /\ refreshResp.error = "invalid_grant")
        ELSE /\ Count(calls, "auth") = 0
             /\ Count(calls, "refresh") = 0
             /\ pc \notin {"auth", "refresh"}

C1_Witness ==
    /\ op = "__init__"
    /\ pc = "done"
    /\ restored.refresh_token # None
    /\ now > restored.expires
    /\ calls[1] = "refresh"
    /\ Count(calls, "auth") = 0

\* C2: once refresh_token() has received an invalid_grant response there is
\* no second refresh, exactly one auth call follows it, and after that call
\* the store holds the values of the login response (a rejected login writes
\* nothing, so no value of the failed refresh is ever persisted).
C2_RefreshSelfHealing ==
    (refreshResp.kind = "data" /\ refreshResp.error = "invalid_grant") =>
        /\ Count(calls, "refresh") = 1
        /\ calls[1] = "refresh"
        /\ IF pc = "auth"
           THEN Count(calls, "auth") = 0
           ELSE /\ Count(calls, "auth") = 1
                /\ calls[2] = "auth"
                /\ IF loginResp.error_description = NoText
                   THEN store = ResponseTokens(loginResp)
                   ELSE store = storeAtOp /\ pc = "failed"

C2_Witness ==
    /\ refreshResp.error = "invalid_grant"
    /\ pc = "done"
    /\ loginResp.error_description = NoText
    /\ store = ResponseTokens(loginResp)
    /\ store # storeAtOp

\* C3: a login whose auth response carries an error description fails with
\* that module error, writes none of the persisted values and does not run
\* the subscription check; otherwise it writes all three values and then
\* enters valid_account.
C3_LoginOutcome ==
    (Count(calls, "auth") > 0) =>
        IF loginResp.error_description # NoText
        THEN /\ pc = "failed"
             /\ err = loginResp.error_description
             /\ writes = <<>>
             /\ store = storeAtOp
             /\ Count(calls, "get_subscription") = 0
        ELSE /\ writes = SessionKeys
             /\ store = sess
             /\ (~disable) =>
                   IF LastCall = "auth"
                   THEN pc = "get_subscription" /\ stack[Len(stack)] = "valid_account"
                                                /\ stack[Len(stack) - 1] = "login"
                   ELSE LastCall = "get_subscription"

C3_Witness ==
    /\ op = "login"
    /\ Count(calls, "auth") > 0
    /\ loginResp.error_description # NoText
    /\ pc = "failed"
    /\ storeAtOp # NoSession

\* the four entitlement conditions on a subscription response
Entitled(r) ==
    /\ r.kind = "data"
    /\ r.subscription = "present"
    /\ r.bundle = "present"
    /\ r.plan_code \in AcceptedPlanCodes
    /\ r.active /\ "active" \in r.status

\* C4: with the check enabled valid_account passes exactly when the response
\* has a subscription object, a non-empty bundle, an accepted plan code and
\* an active status; with the check disabled it never fails and never calls
\* get_subscription.
C4_ValidAccount ==
    /\ disable => /\ Count(calls, "get_subscription") = 0
                  /\ pc # "get_subscription"
                  /\ err # ValidationFailed
    /\ (LastCall = "get_subscription") => ((pc # "failed") <=> Entitled(subResp))

C4_Witness ==
    /\ ~disable
    /\ LastCall = "get_subscription"
    /\ Entitled(subResp)
    /\ subResp.plan_code = "bp_link_pro"
    /\ pc = "done"

\* C5: whatever made valid_account fail (get_subscription raising, a
\* malformed response, a failed condition), the error that reaches the caller
\* is the one generic module error.
C5_SingleValidationError ==
    (pc = "failed" /\ LastCall = "get_subscription") =>
        /\ err = ValidationFailed
        /\ SubscriptionFailure(subResp) # NoText

C5_Witness ==
    /\ pc = "failed"
    /\ LastCall = "get_subscription"
    /\ subResp.kind = "data"
    /\ subResp.subscription = "present"
    /\ subResp.bundle = "present"
    /\ subResp.plan_code = "bp_basic"
    /\ err = ValidationFailed

\* C6: after a login or refresh that completed, and whenever an operation
\* has written to the store, all three values have been written and the
\* store equals the API client's access_token, refresh_token and expires.
C6_StoreMatchesClient ==
    ((pc = "done" /\ Count(calls, "auth") + Count(calls, "refresh") > 0) \/ writes # <<>>) =>
        /\ writes = SessionKeys
        /\ store = sess

C6_Witness ==
    /\ ops = MaxOps
    /\ op = "refresh_token"
    /\ pc = "done"
    /\ refreshResp.error = NoText
    /\ refreshResp.kind = "data"
    /\ store # storeAtOp
    /\ store = sess

\* C20 as stated: a construction with the check enabled that completes ends
\* with a passed subscription check made after its last login or refresh, and
\* has called get_subscription exactly once on every path.
C20_AsStated ==
    (op = "__init__" /\ pc = "done" /\ ~disable) =>
        /\ LastCall = "get_subscription"
        /\ Entitled(subResp)
        /\ Count(calls, "get_subscription") = 1

\* C20, amended: a construction with the check enabled that completes ends
\* with a passed subscription check made after its last login or refresh; it
\* has called get_subscription once on the proceed and refresh paths and
\* twice on the paths through login (in login, and again in __init__).
C20_ConstructionValidated ==
    (op = "__init__" /\ pc = "done" /\ ~disable) =>
        /\ LastCall = "get_subscription"
        /\ Entitled(subResp)
        /\ Count(calls, "get_subscription") = (IF Count(calls, "auth") > 0 THEN 2 ELSE 1)

C20_Witness ==
    /\ op = "__init__"
    /\ pc = "done"
    /\ ~disable
    /\ calls = <<"refresh", "auth", "get_subscription", "get_subscription">>
    /\ Entitled(subResp)

\* ====================================================== Paginated aggregation

PageSize == 100     \* items per page of the remote API

Kinds == {"chart", "playlist", "artist", "album"}

Min(a, b) == IF a < b THEN a ELSE b

\* ---- the remote catalogue: a collection of n tracks, track i having id i,
\* served in pages of PageSize; a user playlist wraps each item in 'track'.
NoLength == -1      \* a track payload without 'length_ms'

\* the position the server reports restarts on every disc of three tracks
ServerNumber(i) == (i % 3) + 1

LengthMs(i) == IF i = gap THEN NoLength ELSE 60000 + 1500 * (i % 3)

\* the release a track belongs to: the album being listed, and elsewhere one
\* of the releases 1..MaxTrack; track ids and release ids are numbered
\* independently, so they overlap
ReleaseOf(i) == IF kind = "album" THEN media_id ELSE (i % MaxTrack) + 1

TrackItem(i) == [type |-> "track", id |-> i, number |-> ServerNumber(i),
                 length_ms |-> LengthMs(i), release |-> ReleaseOf(i),
                 name |-> "name", mix_name |-> NoText, artists |-> <<"artist">>,
                 is_available_for_streaming |-> TRUE, preorder |-> FALSE]

ReleaseRecord(i) == [type |-> "release", id |-> i, name |-> "release"]

ServerItem(k, i) == IF k = "playlist" THEN [track |-> TrackItem(i)] ELSE TrackItem(i)

ServerPage(k, n, p) ==
    LET first == PageSize * (p - 1)
        len == IF first >= n THEN 0 ELSE Min(PageSize, n - first)
    IN [j \in 1..len |-> ServerItem(k, first + j)]

TracksMethod(k) ==
    CASE k = "chart" -> "get_chart_tracks"
      [] k = "playlist" -> "get_playlist_tracks"
      [] k = "artist" -> "get_artist_tracks"
      [] k = "album" -> "get_release_tracks"

InfoMethod(k) ==
    CASE k = "chart" -> "get_chart"
      [] k = "playlist" -> "get_playlist"
      [] k = "artist" -> "get_artist"
      [] k = "album" -> "get_release"

\* ---- the per-kind shape of a page's results
\* get_playlist_info unwraps the 'track' element of a user playlist's items
Unwrap(k, results) ==
    IF k = "playlist" THEN [j \in DOMAIN results |-> results[j].track] ELSE results

\* PlaylistPageStop dropping the last partial page
PlaylistPageStopShort(total) == total \div 100 + 1

\* ---- the end of range(2, ...) in each aggregation
PlaylistPageStop(total) == (total - 1) \div 100 + 2

ArtistPageStop(total) == total \div 100 + 2

AlbumPageStop(total) == total \div 100 + 2

PageStop(k, total) ==
    CASE k \in {"chart", "playlist"} -> PlaylistPageStop(total)
      [] k = "artist" -> ArtistPageStop(total)
      [] k = "album" -> AlbumPageStop(total)

\* Accumulate putting a later page in front
AccumulateInFront(acc, items) == items \o acc

\* ---- the accumulation: tracks += page results
Accumulate(acc, items) == acc \o items

TrackIds(ts) == [j \in DOMAIN ts |-> ts[j].id]

\* ---- a dict, kept as the sequence of its assignments <<key, value>>: a
\* later assignment to a key replaces the earlier one
Has(dict, k) == \E j \in DOMAIN dict : dict[j][1] = k

Get(dict, k) ==
    LET last == CHOOSE j \in DOMAIN dict :
                    /\ dict[j][1] = k
                    /\ \A h \in DOMAIN dict : dict[h][1] = k => h <= j
    IN dict[last][2]

\* Number counting from zero
NumberFromZero(k, ts, total) ==
    CASE k = "album" -> [j \in DOMAIN ts |-> [ts[j] EXCEPT !.number = j - 1]]
      [] k \in {"chart", "playlist"} ->
            [j \in DOMAIN ts |->
                [f \in DOMAIN ts[j] \cup {"track_number", "total_tracks"} |->
                    IF f = "track_number" THEN j - 1
                    ELSE IF f = "total_tracks" THEN total
                    ELSE ts[j][f]]]
      [] k = "artist" -> ts

\* ---- the numbering loops (lines 278-281 and 338-340): enumerate() from 0,
\* the number written is i + 1
Number(k, ts, total) ==
    CASE k = "album" -> [j \in DOMAIN ts |-> [ts[j] EXCEPT !.number = j]]
      [] k \in {"chart", "playlist"} ->
            [j \in DOMAIN ts |->
                [f \in DOMAIN ts[j] \cup {"track_number", "total_tracks"} |->
                    IF f = "track_number" THEN j
                    ELSE IF f = "total_tracks" THEN total
                    ELSE ts[j][f]]]
      [] k = "artist" -> ts

\* ---- the cache handed back: the album's own record first (line 337), then
\* every track under its id (lines 283, 319, 342)
BuildCache(k, id, ts) ==
    (IF k = "album" THEN << <<id, ReleaseRecord(id)>> >> ELSE <<>>)
        \o [j \in DOMAIN ts |-> <<ts[j].id, ts[j]>>]

\* sum([... // 1000 for t in tracks]) over ts[lo..hi], summed by halves
RECURSIVE SumSeconds(_, _, _, _)
SumSeconds(ts, lo, hi, absent) ==
    IF lo > hi THEN 0
    ELSE IF lo = hi
    THEN (IF ts[lo].length_ms = NoLength THEN absent ELSE ts[lo].length_ms \div 1000)
    ELSE LET mid == (lo + hi) \div 2
         IN SumSeconds(ts, lo, mid, absent) + SumSeconds(ts, mid + 1, hi, absent)

\* ---- the duration of the info object: [err, value]
\* album (line 348): t.get('length_ms') // 1000, which is None // 1000 for a
\* track without length_ms; playlist (line 299): t.get('length_ms', 0) // 1000;
\* artist: no duration
Duration(k, ts) ==
    CASE k = "album" ->
            IF \E j \in DOMAIN ts : ts[j].length_ms = NoLength
            THEN [err |-> "TypeError", value |-> 0]
            ELSE [err |-> NoText, value |-> SumSeconds(ts, 1, Len(ts), 0)]
      [] k \in {"chart", "playlist"} -> [err |-> NoText, value |-> SumSeconds(ts, 1, Len(ts), 0)]
      [] k = "artist" -> [err |-> NoText, value |-> 0]

InitPages ==
    /\ gpc = "first"
    /\ kind \in Kinds
    /\ declared \in 0..MaxCount
    /\ total_tracks = 0
    /\ page = 0
    /\ stop = 0
    /\ tracks = <<>>
    /\ requests = <<>>
    /\ responses = <<>>
    /\ apiLog = <<>>
    /\ result = <<>>
    /\ media_id = 1
    /\ gap = 0
    /\ cache = <<>>
    /\ duration = 0
    /\ perr = NoText

\* small collections, some with a track that has no duration, and one
\* collection of more than a page
CollectCounts == (0..MaxSmall) \cup {PageSize + 1}

InitCollect ==
    /\ gpc = "first"
    /\ kind \in Kinds
    /\ declared \in CollectCounts
    /\ total_tracks = 0
    /\ page = 0
    /\ stop = 0
    /\ tracks = <<>>
    /\ requests = <<>>
    /\ responses = <<>>
    /\ apiLog = <<>>
    /\ result = <<>>
    /\ media_id \in 1..MaxTrack
    /\ gap \in 0..Min(declared, MaxSmall)
    /\ cache = <<>>
    /\ duration = 0
    /\ perr = NoText

PagesIdle ==
    /\ gpc = "idle"
    /\ kind = "chart"
    /\ declared = 0
    /\ total_tracks = 0
    /\ page = 0
    /\ stop = 0
    /\ tracks = <<>>
    /\ requests = <<>>
    /\ responses = <<>>
    /\ apiLog = <<>>
    /\ result = <<>>
    /\ media_id = 1
    /\ gap = 0
    /\ cache = <<>>
    /\ duration = 0
    /\ perr = NoText

\* get_*_info up to the page loop: the info request and the first track page
FetchFirst ==
    /\ gpc = "first"
    /\ LET resp == [count |-> declared, results |-> ServerPage(kind, declared, 1)]
           last == PageStop(kind, resp.count)
       IN /\ tracks' = Unwrap(kind, resp.results)
          /\ responses' = <<resp.results>>
          /\ total_tracks' = resp.count
          /\ stop' = last
          /\ gpc' = IF 2 < last THEN "page" ELSE "finish"
    /\ page' = 2
    /\ requests' = <<1>>
    /\ apiLog' = <<InfoMethod(kind), TracksMethod(kind)>>
    /\ UNCHANGED <<kind, declared, result, media_id, gap, cache, duration, perr>>
    /\ UNCHANGED <<authVars, dlVars, trackVars, miscVars>>

\* one round of the page loop
FetchPage ==
    /\ gpc = "page"
    /\ LET results == ServerPage(kind, declared, page)
       IN /\ tracks' = Accumulate(tracks, Unwrap(kind, results))
          /\ responses' = Append(responses, results)
    /\ requests' = Append(requests, page)
    /\ apiLog' = Append(apiLog, TracksMethod(kind))
    /\ page' = page + 1
    /\ gpc' = IF page + 1 < stop THEN "page" ELSE "finish"
    /\ UNCHANGED <<kind, declared, total_tracks, stop, result, media_id, gap, cache,
                   duration, perr>>
    /\ UNCHANGED <<authVars, dlVars, trackVars, miscVars>>

\* after the loop: the tracks are numbered and cached and the info object,
\* with its duration and track-id list, is returned
Finish ==
    /\ gpc = "finish"
    /\ LET numbered == Number(kind, tracks, total_tracks)
           d == Duration(kind, numbered)
       IN /\ tracks' = numbered
          /\ IF d.err # NoText
             THEN /\ gpc' = "failed"
                  /\ perr' = d.err
                  /\ UNCHANGED <<result, cache, duration>>
             ELSE /\ gpc' = "done"
                  /\ result' = TrackIds(numbered)
                  /\ cache' = BuildCache(kind, media_id, numbered)
                  /\ duration' = d.value
                  /\ UNCHANGED perr
    /\ UNCHANGED <<kind, declared, total_tracks, page, stop, requests, responses, apiLog,
                   media_id, gap>>
    /\ UNCHANGED <<authVars, dlVars, trackVars, miscVars>>

NextPages == FetchFirst \/ FetchPage \/ Finish

\* ---------------------------------------------- properties of the aggregation

Ceil(a, b) == (a + b - 1) \div b

RECURSIVE Flatten(_)
Flatten(ss) == IF ss = <<>> THEN <<>> ELSE ss[1] \o Flatten(Tail(ss))

ItemId(k, item) == IF k = "playlist" THEN item.track.id ELSE item.id

IsTrack(t) == "id" \in DOMAIN t /\ "track" \notin DOMAIN t

\* C7 as stated: a chart or playlist of C tracks is aggregated with exactly
\* ceil(C/100) page requests (the first included), the merged sequence has
\* length C, and every item is unwrapped.
C7_AsStated ==
    (gpc = "done" /\ kind \in {"chart", "playlist"}) =>
        /\ Len(requests) = Ceil(declared, PageSize)
        /\ Len(tracks) = declared
        /\ \A j \in DOMAIN tracks : IsTrack(tracks[j])

\* C7 amended: a chart or playlist of C >= 1 tracks is aggregated with exactly
\* ceil(C/100) page requests, an empty one with the single first-page
\* request; the merged sequence has length C and every item, of the first
\* page and of later ones, is the unwrapped track.
C7_PlaylistPages ==
    (gpc = "done" /\ kind \in {"chart", "playlist"}) =>
        /\ Len(requests) = (IF declared = 0 THEN 1 ELSE Ceil(declared, PageSize))
        /\ Len(tracks) = declared
        /\ \A j \in DOMAIN tracks : IsTrack(tracks[j])

C7_Witness ==
    /\ gpc = "done"
    /\ kind = "playlist"
    /\ declared = 201
    /\ Len(requests) = 3
    /\ Len(tracks) = 201
    /\ IsTrack(tracks[201])

\* C8: an artist or album of C >= 1 tracks is aggregated with exactly
\* ceil(C/100) page requests and the merged sequence has length C; no page
\* after the last non-empty one is requested.
C8_ReleasePages ==
    (gpc = "done" /\ kind \in {"artist", "album"} /\ declared >= 1) =>
        /\ Len(requests) = Ceil(declared, PageSize)
        /\ Len(tracks) = declared
        /\ \A i \in DOMAIN responses : responses[i] # <<>>

\* C9: the track pages are requested in the order 1, 2, 3, ... with no index
\* skipped or repeated, each response arriving before the next request, and
\* the returned id list is the pages' items in page order and, within a
\* page, server order.
C9_SequentialPages ==
    /\ \A i \in DOMAIN requests : requests[i] = i
    /\ Len(responses) = Len(requests)
    /\ (gpc = "done") =>
          LET items == Flatten(responses)
          IN result = [j \in DOMAIN items |-> ItemId(kind, items[j])]

C9_Witness ==
    /\ gpc = "done"
    /\ kind = "album"
    /\ declared = 250
    /\ requests = <<1, 2, 3>>
    /\ Len(result) = 250
    /\ result[101] = 101

\* the number a track carries after the aggregation
NumberOf(k, t) == IF k = "album" THEN t.number ELSE t.track_number

\* C16: get_album_info and get_playlist_info give the i-th accumulated track
\* the number i (from 1), whatever number the server sent; get_playlist_info
\* records the declared count on every track; every enumerated track is in
\* the returned cache under its id, numbered.
C16_NumberedAndCached ==
    (gpc = "done" /\ kind \in {"album", "chart", "playlist"}) =>
        /\ Len(tracks) = Len(result)
        /\ \A j \in DOMAIN tracks :
              /\ NumberOf(kind, tracks[j]) = j
              /\ (kind # "album") => (tracks[j].total_tracks = total_tracks)
              /\ Has(cache, result[j])
              /\ Get(cache, result[j]) = tracks[j]
              /\ tracks[j].id = result[j]

C16_Witness ==
    /\ gpc = "done"
    /\ kind = "album"
    /\ declared = 3
    /\ media_id = 2
    /\ responses[1][3].number = 1
    /\ tracks[3].number = 3
    /\ Get(cache, 2).type = "track"

\* C17: get_album_info returns, with a duration that is the sum of the
\* tracks' whole seconds, a track without a duration counting as zero.
C17_AlbumDuration ==
    (kind = "album" /\ gpc \in {"done", "failed"}) =>
        /\ gpc = "done"
        /\ duration = SumSeconds(tracks, 1, Len(tracks), 0)

\* ========================================================= get_track_download

QualityTiers == {"MINIMUM", "LOW", "MEDIUM", "HIGH", "LOSSLESS", "HIFI"}

\* quality_parse sending HIFI to the high bucket
quality_parseHifiHigh(t) ==
    CASE t \in {"MINIMUM", "LOW", "MEDIUM"} -> "medium"
      [] t \in {"HIGH", "HIFI"} -> "high"
      [] t = "LOSSLESS" -> "lossless"

\* ModuleInterface.quality_parse
quality_parse(tier) ==
    CASE tier \in {"MINIMUM", "LOW", "MEDIUM"} -> "medium"
      [] tier = "HIGH" -> "high"
      [] tier \in {"LOSSLESS", "HIFI"} -> "lossless"

NoError == [type |-> "none", msg |-> NoText]
ModuleError(m) == [type |-> "module", msg |-> m]

\* what an external step may raise: an exception of another type, or one
\* that already is the module's error
Raised == {[type |-> "foreign", msg |-> "ConnectionError"],
           [type |-> "module", msg |-> "Beatport: stream error"]}

\* get_track_stream returns nothing, a payload without stream_url, or one with it
StreamResponses == {"none", "no_url", "url"}

FileStates == {"absent", "empty", "data"}

NoSegments == [outcome |-> "unset", left |-> "absent"]

\* HasStreamUrl taking any payload for one with a stream URL
HasStreamUrlAnyPayload(resp) == resp # "none"

\* ---- line 460: the response is there and carries a stream_url
HasStreamUrl(resp) == resp = "url"

\* Cleanup that leaves the file where it is
CleanupKeepsFile(tf, f, removeOk) == f

\* ---- the except clause's cleanup (lines 487-491): the file after it
Cleanup(tf, f, removeOk) ==
    IF tf # None /\ f # "absent" /\ removeOk THEN "absent" ELSE f

\* os.remove was called and raised
RemoveRaised(tf, f, removeOk) == tf # None /\ f # "absent" /\ ~removeOk

\* Reraise letting every exception through as it is
ReraiseAsIs(e) == e

\* ---- the except clause's re-raise (lines 492-494)
Reraise(e) ==
    IF e.type = "module" THEN e ELSE [type |-> "module", msg |-> "Download failed"]

\* Verify with the size check lost
VerifyExistsOnly(f) ==
    IF f = "absent" THEN [type |-> "module", msg |-> "Failed to create temporary file"]
    ELSE [type |-> "none", msg |-> NoText]

\* ---- the verification of the downloaded file (lines 473-478)
Verify(f) ==
    IF f = "absent" THEN ModuleError("Failed to create temporary file")
    ELSE IF f = "empty" THEN ModuleError("Downloaded file is empty")
    ELSE NoError

InitDownload ==
    /\ dpc = "stream"
    /\ track_id \in 1..MaxTrack
    /\ quality_tier \in QualityTiers
    /\ temp_file = None
    /\ file = "absent"
    /\ dcalls = <<>>
    /\ derr = NoError
    /\ removeFailed = FALSE
    /\ returned = FALSE
    /\ thrown = NoError
    /\ streamResp = "unset"
    /\ segments = NoSegments

DownloadIdle ==
    /\ dpc = "idle"
    /\ track_id = 1
    /\ quality_tier = "HIGH"
    /\ temp_file = None
    /\ file = "absent"
    /\ dcalls = <<>>
    /\ derr = NoError
    /\ removeFailed = FALSE
    /\ returned = FALSE
    /\ thrown = NoError
    /\ streamResp = "unset"
    /\ segments = NoSegments

\* an exception e is raised inside the try block: the except clause runs
Fail(e, tf, f, removeOk) ==
    /\ dpc' = "failed"
    /\ file' = Cleanup(tf, f, removeOk)
    /\ removeFailed' = RemoveRaised(tf, f, removeOk)
    /\ derr' = Reraise(e)
    /\ thrown' = e
    /\ returned' = FALSE

\* get_track_stream and the allocation of the temporary path
GetTrackStream ==
    /\ dpc = "stream"
    /\ dcalls' = Append(dcalls, <<"get_track_stream", quality_parse(quality_tier)>>)
    /\ \/ \E e \in Raised, ok \in BOOLEAN :
            /\ Fail(e, temp_file, file, ok)
            /\ UNCHANGED <<temp_file, streamResp>>
       \/ \E resp \in StreamResponses, ok \in BOOLEAN :
            /\ streamResp' = resp
            /\ IF ~HasStreamUrl(resp)
               THEN /\ Fail(ModuleError("Could not get stream URL"), temp_file, file, ok)
                    /\ UNCHANGED temp_file
               ELSE /\ temp_file' = track_id
                    /\ dpc' = "manifest"
                    /\ UNCHANGED <<file, derr, removeFailed, returned, thrown>>
    /\ UNCHANGED <<track_id, quality_tier, segments>>
    /\ UNCHANGED <<authVars, pageVars, trackVars, miscVars>>

\* stream.get_stream_manifest
GetStreamManifest ==
    /\ dpc = "manifest"
    /\ dcalls' = Append(dcalls, <<"get_stream_manifest", "url">>)
    /\ \/ \E e \in Raised, ok \in BOOLEAN : Fail(e, temp_file, file, ok)
       \/ /\ dpc' = "segments"
          /\ UNCHANGED <<file, derr, removeFailed, returned, thrown>>
    /\ UNCHANGED <<track_id, quality_tier, temp_file, streamResp, segments>>
    /\ UNCHANGED <<authVars, pageVars, trackVars, miscVars>>

\* stream.download_segments, the verification and the return
DownloadSegments ==
    /\ dpc = "segments"
    /\ dcalls' = Append(dcalls, <<"download_segments", "temp_file">>)
    /\ \E written \in FileStates, ok \in BOOLEAN :
         \/ /\ \E e \in Raised : Fail(e, temp_file, written, ok)
            /\ segments' = [outcome |-> "raised", left |-> written]
         \/ /\ segments' = [outcome |-> "returned", left |-> written]
            /\ IF Verify(written) # NoError
               THEN Fail(Verify(written), temp_file, written, ok)
               ELSE /\ dpc' = "done"
                    /\ file' = written
                    /\ returned' = TRUE
                    /\ UNCHANGED <<derr, removeFailed, thrown>>
    /\ UNCHANGED <<track_id, quality_tier, temp_file, streamResp>>
    /\ UNCHANGED <<authVars, pageVars, trackVars, miscVars>>

NextDownload == GetTrackStream \/ GetStreamManifest \/ DownloadSegments

\* ------------------------------------------------- properties of the download

StepNames == [j \in DOMAIN dcalls |-> dcalls[j][1]]

StepOrder == <<"get_track_stream", "get_stream_manifest", "download_segments">>

\* C11: the error that leaves get_track_download is of the module's type: a
\* module error raised inside is passed on unchanged, any other exception
\* is replaced by the module's download-failure error, also when the
\* deletion of the temporary file failed.
C11_OnlyModuleErrors ==
    (dpc = "failed") =>
        /\ thrown # NoError
        /\ derr.type = "module"
        /\ (thrown.type = "module") => (derr = thrown)
        /\ (thrown.type # "module") => (derr = ModuleError("Download failed"))

C11_Witness ==
    /\ dpc = "failed"
    /\ thrown.type = "foreign"
    /\ removeFailed
    /\ derr = ModuleError("Download failed")

\* C12: a TrackDownloadInfo is returned only after download_segments
\* returned and left a file that exists and is not empty; when it returned
\* and the file is missing or empty, the call fails with the module error
\* and returns nothing.
C12_VerifiedArtifact ==
    /\ returned => /\ dpc = "done"
                   /\ segments.outcome = "returned"
                   /\ segments.left = "data"
                   /\ file = "data"
    /\ (segments.outcome = "returned" /\ segments.left \in {"absent", "empty"}) =>
           /\ dpc = "failed"
           /\ ~returned
           /\ derr.type = "module"
           /\ derr = thrown

C12_Witness ==
    /\ segments = [outcome |-> "returned", left |-> "empty"]
    /\ dpc = "failed"
    /\ derr = ModuleError("Downloaded file is empty")

\* C13: the external steps are taken in the order get_track_stream,
\* get_stream_manifest, download_segments, each at most once; a stream
\* response that is empty or has no stream URL fails the call with the
\* module error after the first step, no temporary path allocated.
C13_StepOrder ==
    /\ Len(dcalls) <= 3
    /\ StepNames = SubSeq(StepOrder, 1, Len(dcalls))
    /\ (streamResp \in {"none", "no_url"}) =>
           /\ dpc = "failed"
           /\ derr = ModuleError("Could not get stream URL")
           /\ Len(dcalls) = 1
           /\ temp_file = None

C13_Witness ==
    /\ streamResp = "no_url"
    /\ dpc = "failed"
    /\ StepNames = <<"get_track_stream">>
    /\ temp_file = None

\* ============================================================= get_track_info

\* the raw record of track i of release r
TrackPayloads(i, r) ==
    [type : {"track"}, id : {i}, release : {r}, name : {"name"},
     mix_name : {NoText, "Extended Mix"}, artists : {<<"artist">>},
     is_available_for_streaming : BOOLEAN, preorder : BOOLEAN]

NoPayload == [type |-> "none"]

\* the caches a caller may pass: nothing, the track's release, the track, or both
DataCaches(i, r, p) ==
    {(IF hasRelease THEN << <<r, ReleaseRecord(r)>> >> ELSE <<>>)
        \o (IF hasTrack THEN << <<i, p>> >> ELSE <<>>) :
     hasRelease \in BOOLEAN, hasTrack \in BOOLEAN}

\* get_release returns the release, or raises: a ConnectionError that says
\* 'Territory Restricted.', another ConnectionError, or another exception
ReleaseOutcomes == {"ok", "territory", "connection", "error"}

NoInfo == [name |-> <<>>]

\* InCache that never finds anything
InCacheNever(d, k) == FALSE

\* ---- "x in data" of lines 362 and 369
InCache(d, k) == Has(d, k)

\* TrackError that starts again from None after the release fetch
TrackErrorForgetsRelease(outcome, t) ==
    IF ~t.is_available_for_streaming THEN "not streamable"
    ELSE IF t.preorder THEN "not yet released"
    ELSE NoText

\* ---- the error field (lines 366-373 and 402-405)
TrackError(outcome, t) ==
    IF ~t.is_available_for_streaming THEN "not streamable"
    ELSE IF t.preorder THEN "not yet released"
    ELSE IF outcome = "territory" THEN "region locked"
    ELSE NoText

\* ---- line 364: track_data.get('release').get('id'); None stands for the
\* AttributeError of a record without 'release'
AlbumId(t) == IF "release" \in DOMAIN t THEN t.release ELSE None

\* ---- lines 375-376: the name, with the mix name appended when there is one
TrackName(t) == IF t.mix_name # NoText THEN <<t.name, t.mix_name>> ELSE <<t.name>>

\* ---- lines 408-412
Bitrate(quality) ==
    CASE quality = "lossless" -> 1411
      [] quality = "high" -> 256
      [] quality = "medium" -> 128

\* ---- line 424; None is the unset bit depth
BitDepth(quality) == IF quality = "lossless" THEN 16 ELSE None

\* ---- line 429
Codec(t) == IF t \notin {"HIFI", "LOSSLESS"} THEN "AAC" ELSE "FLAC"

\* ---- lines 375-432: the TrackInfo built from track_data and album_data;
\* album_data is {} when get_release raised a ConnectionError
BuildTrackInfo(t, album, outcome, q) ==
    [name |-> TrackName(t),
     album |-> IF album.type = "none" THEN NoText ELSE album.name,
     album_id |-> IF album.type = "none" THEN None ELSE album.id,
     album_type |-> album.type,
     artists |-> t.artists,
     bitrate |-> Bitrate(quality_parse(q)),
     bit_depth |-> BitDepth(quality_parse(q)),
     codec |-> Codec(q),
     error |-> TrackError(outcome, t)]

InitTrack ==
    /\ tpc = "track"
    /\ tid \in 1..MaxTrack
    /\ tquality \in QualityTiers
    /\ \E r \in 1..MaxTrack :
         /\ payload \in TrackPayloads(tid, r)
         /\ data \in DataCaches(tid, r, payload)
    /\ dataAtCall = data
    /\ track_data = NoPayload
    /\ relOutcome = "unset"
    /\ tcalls = <<>>
    /\ info = NoInfo
    /\ terr = NoText

TrackIdle ==
    /\ tpc = "idle"
    /\ tid = 1
    /\ tquality = "HIGH"
    /\ data = <<>>
    /\ dataAtCall = <<>>
    /\ payload = NoPayload
    /\ track_data = NoPayload
    /\ relOutcome = "unset"
    /\ tcalls = <<>>
    /\ info = NoInfo
    /\ terr = NoText

\* line 362: track_data from the cache or from get_track
GetTrack ==
    /\ tpc = "track"
    /\ IF InCache(data, tid)
       THEN /\ track_data' = Get(data, tid)
            /\ tpc' = "release"
            /\ UNCHANGED <<tcalls, terr>>
       ELSE /\ tcalls' = Append(tcalls, <<"get_track", tid>>)
            /\ \/ /\ track_data' = payload
                  /\ tpc' = "release"
                  /\ UNCHANGED terr
               \/ /\ tpc' = "failed"
                  /\ terr' = "ConnectionError"
                  /\ UNCHANGED track_data
    /\ UNCHANGED <<tid, tquality, data, dataAtCall, payload, relOutcome, info>>
    /\ UNCHANGED <<authVars, pageVars, dlVars, miscVars>>

\* lines 364-434: album_data from the cache or from get_release, then the TrackInfo
GetRelease ==
    /\ tpc = "release"
    /\ LET album_id == AlbumId(track_data) IN
         IF album_id = None
         THEN /\ tpc' = "failed"
              /\ terr' = "AttributeError"
              /\ UNCHANGED <<relOutcome, info, tcalls>>
         ELSE IF InCache(data, album_id)
         THEN /\ relOutcome' = "cache"
              /\ info' = BuildTrackInfo(track_data, Get(data, album_id), "cache", tquality)
              /\ tpc' = "done"
              /\ UNCHANGED <<tcalls, terr>>
         ELSE /\ tcalls' = Append(tcalls, <<"get_release", album_id>>)
              /\ \E outcome \in ReleaseOutcomes :
                   /\ relOutcome' = outcome
                   /\ IF outcome = "error"
                      THEN /\ tpc' = "failed"
                           /\ terr' = "Exception"
                           /\ UNCHANGED info
                      ELSE /\ info' = BuildTrackInfo(track_data,
                                        IF outcome = "ok" THEN ReleaseRecord(album_id)
                                        ELSE NoPayload,
                                        outcome, tquality)
                           /\ tpc' = "done"
                           /\ UNCHANGED terr
    /\ UNCHANGED <<tid, tquality, data, dataAtCall, payload, track_data>>
    /\ UNCHANGED <<authVars, pageVars, dlVars, miscVars>>

NextTrack == GetTrack \/ GetRelease

\* ------------------------------------------------ properties of get_track_info

\* C14: when get_release fails with the territory restriction get_track_info
\* still returns, and the TrackInfo of a track that is territory-restricted,
\* not streamable or a pre-order has a non-null error, with the name and the
\* artists of the track data.
C14_NonFatalErrorField ==
    /\ (relOutcome = "territory") => (tpc = "done")
    /\ (tpc = "done" /\ (relOutcome = "territory"
                          \/ ~track_data.is_available_for_streaming
                          \/ track_data.preorder)) =>
           /\ info.error # NoText
           /\ info.name[1] = track_data.name
           /\ info.artists = track_data.artists
           /\ info.artists # <<>>

C14_Witness ==
    /\ tpc = "done"
    /\ relOutcome = "territory"
    /\ track_data.is_available_for_streaming
    /\ ~track_data.preorder
    /\ info.error = "region locked"
    /\ info.name = <<"name", "Extended Mix">>

\* C15: a call whose cache holds the track id and the id of that track's
\* release makes no API client call, and no call changes the cache.
C15_CacheShortCircuit ==
    /\ data = dataAtCall
    /\ (/\ Has(dataAtCall, tid)
        /\ Get(dataAtCall, tid).type = "track"
        /\ Has(dataAtCall, Get(dataAtCall, tid).release)) =>
           /\ tcalls = <<>>
           /\ tpc # "failed"

C15_Witness ==
    /\ tpc = "done"
    /\ Len(dataAtCall) = 2
    /\ Has(dataAtCall, tid)
    /\ Get(dataAtCall, tid).type = "track"
    /\ Has(dataAtCall, Get(dataAtCall, tid).release)
    /\ tcalls = <<>>
    /\ info.album_type = "release"

\* C18: MINIMUM, LOW and MEDIUM resolve to 128 kbit/s AAC without bit depth,
\* HIGH to 256 kbit/s AAC without bit depth, LOSSLESS and HIFI to 1411 kbit/s
\* in the lossless codec with bit depth 16; so lossless codec, bitrate 1411
\* and a set bit depth go together.
C18_QualityMapping ==
    (tpc = "done") =>
        /\ (tquality \in {"MINIMUM", "LOW", "MEDIUM"}) =>
              (info.bitrate = 128 /\ info.codec = "AAC" /\ info.bit_depth = None)
        /\ (tquality = "HIGH") =>
              (info.bitrate = 256 /\ info.codec = "AAC" /\ info.bit_depth = None)
        /\ (tquality \in {"LOSSLESS", "HIFI"}) =>
              (info.bitrate = 1411 /\ info.codec = "FLAC" /\ info.bit_depth = 16)
        /\ (info.codec = "FLAC") <=> (info.bitrate = 1411)
        /\ (info.codec = "FLAC") <=> (info.bit_depth # None)

C18_Witness ==
    /\ tpc = "done"
    /\ tquality = "HIFI"
    /\ info.bitrate = 1411
    /\ info.codec = "FLAC"
    /\ info.bit_depth = 16

\* C21: a TrackInfo returned after the release fetch failed, for whatever
\* reason, has a non-null error field.
C21_ReleaseFailureReported ==
    (tpc = "done" /\ relOutcome \in {"territory", "connection", "error"}) =>
        info.error # NoText

\* ================================================== search and get_track_cover

QueryTypes == {"track", "album", "playlist", "artist"}

MiscIdle ==
    /\ mpc = "idle"
    /\ query_type = "track"
    /\ cover_cached = FALSE
    /\ mcalls = <<>>

\* search: session.get_search(query), then the result list (lines 199-244)
Search ==
    /\ mpc = "get_search"
    /\ mcalls' = Append(mcalls, "get_search")
    /\ \E raised \in BOOLEAN : mpc' = IF raised THEN "failed" ELSE "done"
    /\ UNCHANGED <<query_type, cover_cached>>
    /\ UNCHANGED <<authVars, pageVars, dlVars, trackVars>>

\* get_track_cover: the track from the cache or from get_track (line 440),
\* then the artwork URL
GetTrackCover ==
    /\ mpc = "cover"
    /\ IF cover_cached
       THEN mpc' = "done" /\ UNCHANGED mcalls
       ELSE /\ mcalls' = Append(mcalls, "get_track")
            /\ \E raised \in BOOLEAN : mpc' = IF raised THEN "failed" ELSE "done"
    /\ UNCHANGED <<query_type, cover_cached>>
    /\ UNCHANGED <<authVars, pageVars, dlVars, trackVars>>

\* ============================================== the host using the module

PublicOperations == {"search", "get_playlist_info", "get_artist_info", "get_album_info",
                     "get_track_info", "get_track_cover", "get_track_download"}

\* AuthStepOf in which search first refreshes the token
AuthStepOfSearchRefreshes(name) ==
    CASE name = "login" -> "auth"
      [] name \in {"refresh_token", "search"} -> "refresh"
      [] OTHER -> "done"

\* ---- the lifecycle step a method begins with: login calls session.auth
\* (line 123), refresh_token calls session.refresh (line 103), and no method
\* of lines 199-494 calls login, refresh_token or valid_account
AuthStepOf(name) ==
    CASE name = "login" -> "auth"
      [] name = "refresh_token" -> "refresh"
      [] OTHER -> "done"

\* what the host asks for: an empty collection, a one-track collection and
\* one of more than a page, in a lossy and in a lossless tier
HostCounts == {0, 1, PageSize + 1}

HostTiers == {"HIGH", "LOSSLESS"}

\* the argument values and locals of a get_*_info call at position p
PagesSet(p, k, n) ==
    /\ gpc' = p
    /\ kind' = k
    /\ declared' = n
    /\ total_tracks' = 0
    /\ page' = 0
    /\ stop' = 0
    /\ tracks' = <<>>
    /\ requests' = <<>>
    /\ responses' = <<>>
    /\ apiLog' = <<>>
    /\ result' = <<>>
    /\ media_id' = 1
    /\ gap' = 0
    /\ cache' = <<>>
    /\ duration' = 0
    /\ perr' = NoText

\* the same for get_track_download
DownloadSet(p, id, q) ==
    /\ dpc' = p
    /\ track_id' = id
    /\ quality_tier' = q
    /\ temp_file' = None
    /\ file' = "absent"
    /\ dcalls' = <<>>
    /\ derr' = NoError
    /\ removeFailed' = FALSE
    /\ returned' = FALSE
    /\ thrown' = NoError
    /\ streamResp' = "unset"
    /\ segments' = NoSegments

\* the same for get_track_info
TrackSet(p, id, q, d, t) ==
    /\ tpc' = p
    /\ tid' = id
    /\ tquality' = q
    /\ data' = d
    /\ dataAtCall' = d
    /\ payload' = t
    /\ track_data' = NoPayload
    /\ relOutcome' = "unset"
    /\ tcalls' = <<>>
    /\ info' = NoInfo
    /\ terr' = NoText

\* the same for search and get_track_cover
MiscSet(p, q, c) ==
    /\ mpc' = p
    /\ query_type' = q
    /\ cover_cached' = c
    /\ mcalls' = <<>>

PagesReset == PagesSet("idle", "chart", 0)

DownloadReset == DownloadSet("idle", 1, "HIGH")

TrackReset == TrackSet("idle", 1, "HIGH", <<>>, NoPayload)

MiscReset == MiscSet("idle", "track", FALSE)

\* no public operation is in progress
AtRest ==
    /\ gpc \in {"idle", "done", "failed"}
    /\ dpc \in {"idle", "done", "failed"}
    /\ tpc \in {"idle", "done", "failed"}
    /\ mpc \in {"idle", "done", "failed"}

\* The host calls a public operation of the constructed module.
BeginPublic(name) ==
    /\ pc = "done"
    /\ AtRest
    /\ ops < MaxOps
    /\ ops' = ops + 1
    /\ op' = name
    /\ pc' = AuthStepOf(name)
    /\ stack' = <<name>>
    /\ calls' = <<>>
    /\ writes' = <<>>
    /\ refreshResp' = NoRefreshResp
    /\ loginResp' = NoAuthResp
    /\ subResp' = NoSubResp
    /\ storeAtOp' = store
    /\ err' = NoText
    /\ restored' = NoSession
    /\ UNCHANGED <<store, sess, now, disable>>

CallSearch ==
    /\ BeginPublic("search")
    /\ \E q \in QueryTypes : MiscSet("get_search", q, FALSE)
    /\ PagesReset /\ DownloadReset /\ TrackReset

CallGetPlaylistInfo ==
    /\ BeginPublic("get_playlist_info")
    /\ \E k \in {"chart", "playlist"}, n \in HostCounts : PagesSet("first", k, n)
    /\ DownloadReset /\ TrackReset /\ MiscReset

CallGetArtistInfo ==
    /\ BeginPublic("get_artist_info")
    /\ \E n \in HostCounts : PagesSet("first", "artist", n)
    /\ DownloadReset /\ TrackReset /\ MiscReset

CallGetAlbumInfo ==
    /\ BeginPublic("get_album_info")
    /\ \E n \in HostCounts : PagesSet("first", "album", n)
    /\ DownloadReset /\ TrackReset /\ MiscReset

\* the track the host asks about: a streamable track of release 1
HostTrack(id) ==
    [type |-> "track", id |-> id, release |-> 1, name |-> "name", mix_name |-> NoText,
     artists |-> <<"artist">>, is_available_for_streaming |-> TRUE, preorder |-> FALSE]

CallGetTrackInfo ==
    /\ BeginPublic("get_track_info")
    /\ \E id \in 1..MaxTrack :
         \E d \in DataCaches(id, 1, HostTrack(id)) :
           TrackSet("track", id, "HIGH", d, HostTrack(id))
    /\ PagesReset /\ DownloadReset /\ MiscReset

CallGetTrackCover ==
    /\ BeginPublic("get_track_cover")
    /\ \E c \in BOOLEAN : MiscSet("cover", "track", c)
    /\ PagesReset /\ DownloadReset /\ TrackReset

CallGetTrackDownload ==
    /\ BeginPublic("get_track_download")
    /\ \E q \in HostTiers : DownloadSet("stream", 1, q)
    /\ PagesReset /\ TrackReset /\ MiscReset

NextModule ==
    \/ Construct \/ Refresh \/ Auth \/ GetSubscription
    \/ CallSearch \/ CallGetPlaylistInfo \/ CallGetArtistInfo \/ CallGetAlbumInfo
    \/ CallGetTrackInfo \/ CallGetTrackCover \/ CallGetTrackDownload
    \/ Search \/ GetTrackCover \/ NextPages \/ NextTrack \/ NextDownload

\* C19: once construction has completed, every step of every public
\* operation, in any sequence, leaves the persisted session values and the
\* API client's session as they were, and makes no auth, refresh or
\* get_subscription call.
C19_SessionFrame ==
    [][(op' \in PublicOperations) =>
          /\ store' = store
          /\ sess' = sess
          /\ calls' = <<>>
          /\ writes' = <<>>
          /\ pc' = "done"]_vars

C19_Witness ==
    /\ ops = MaxOps
    /\ op = "get_track_download"
    /\ dpc = "done"
    /\ returned
    /\ store.refresh_token # None
    /\ now > store.expires
    /\ store = storeAtOp
    /\ calls = <<>>

\* ------------------------------------------- from an aggregation to a track

\* The host takes the cache a finished get_*_info call returned and passes it
\* as data to get_track_info, for a track of the catalogue.
LookUpTrack ==
    /\ gpc = "done"
    /\ tpc = "idle"
    /\ \E id \in 1..MaxTrack, q \in HostTiers : TrackSet("track", id, q, cache, TrackItem(id))
    /\ UNCHANGED <<authVars, pageVars, dlVars, miscVars>>

NextAssemble == NextPages \/ LookUpTrack \/ NextTrack

\* C22: with a cache built by an aggregation, the record get_track_info
\* takes from the cache as album data is a release record, the track's own
\* release, never a track record.
C22_TypedCache ==
    (gpc = "done" /\ tpc = "done" /\ relOutcome = "cache") =>
        /\ info.album_type = "release"
        /\ info.album_id = track_data.release

\* ============================================================= specifications

\* the module under construction and in use by the host
AuthInit == InitAuth /\ PagesIdle /\ DownloadIdle /\ TrackIdle /\ MiscIdle

SpecAuth == AuthInit /\ [][NextAuth]_vars

\* one aggregation call on a constructed module
PagesInit == AuthIdle /\ InitPages /\ DownloadIdle /\ TrackIdle /\ MiscIdle

SpecPages == PagesInit /\ [][NextPages]_vars

\* one aggregation call on a small collection
CollectInit == AuthIdle /\ InitCollect /\ DownloadIdle /\ TrackIdle /\ MiscIdle

SpecCollect == CollectInit /\ [][NextPages]_vars

\* one get_track_download call on a constructed module
DownloadInit == AuthIdle /\ PagesIdle /\ InitDownload /\ TrackIdle /\ MiscIdle

SpecDownload == DownloadInit /\ [][NextDownload]_vars

\* one get_track_info call on a constructed module
TrackInit == AuthIdle /\ PagesIdle /\ DownloadIdle /\ InitTrack /\ MiscIdle

SpecTrack == TrackInit /\ [][NextTrack]_vars

\* construction, then any sequence of public operations
SpecModule == AuthInit /\ [][NextModule]_vars

\* one aggregation on a small collection, then get_track_info with its cache
SpecAssemble == CollectInit /\ [][NextAssemble]_vars

====
